---- MODULE Spec2Model ----
(***************************************************************************)
(* Model of the BLS directory synchronisation scripts:                     *)
(*   Part1-SourcingDatatsets/rearc_datal_s3_sync.py   (HTTP index -> S3)    *)
(*   Part1-SourcingDatatsets/rearc_data_local_sync.py (HTTP index -> dir)   *)
(*                                                                         *)
(* A string of the program that is taken apart by the code (an href) is a  *)
(* sequence of its "/"-separated segments: "../" is <<"..", "">>,          *)
(* "dir/f1" is <<"dir", "f1">>, "" is <<"">>; an anchor without href       *)
(* (None) is <<>>.                                                         *)
(***************************************************************************)
EXTENDS Integers, Sequences, FiniteSets, TLC

\* ------------------------------------------------------------------ bounds
MaxPasses == 2

\* ------------------------------------------------------- program constants
max_tries == 5
S3_TAG_SOURCE_VAL == "bls"

\* -------------------------------------------------------------- the remote
HrefNone   == << >>
HrefEmpty  == << "" >>
HrefParent == << "..", "" >>
HrefDot    == << ".", "" >>
HrefSubdir == << "subdir", "" >>
HrefF1     == << "f1" >>
HrefF2     == << "f2" >>
HrefNested == << "dir", "f1" >>

FileHrefs == {HrefF1, HrefF2, HrefNested}

\* index pages the remote may serve (the anchors of the page, in order)
IndexPages ==
  { << HrefParent, HrefSubdir, HrefF1 >>,
    << HrefF1, HrefF2 >>,
    << HrefNone, HrefEmpty, HrefDot >>,
    << HrefF1, HrefNested >> }

\* header kinds a server may supply on HEAD
HeaderKinds == {"lm", "len", "etag"}
HeaderProfiles == { {"lm", "len"}, {"etag"}, {"len"}, {"lm", "len", "etag"} }

HeadOutcomes == {"ok", "status", "exc"}

\* the body served at a file url, its md5 and its byte count
RemoteBody(href) ==
  CASE href = HrefF1 -> "c1"
    [] href = HrefF2 -> "c2"
    [] OTHER         -> "c3"

MD5(body) ==
  CASE body = "c0" -> "m0"
    [] body = "c1" -> "m1"
    [] body = "c2" -> "m2"
    [] OTHER       -> "m3"

Size(body) ==
  CASE body = "c0" -> 1
    [] body = "c1" -> 2
    [] body = "c2" -> 3
    [] OTHER       -> 2

\* str(total)
Str(n) ==
  CASE n = 0 -> "0"
    [] n = 1 -> "1"
    [] n = 2 -> "2"
    [] n = 3 -> "3"
    [] OTHER -> "many"

RemoteLastModified(href) ==
  CASE href = HrefF1 -> "lm1"
    [] href = HrefF2 -> "lm2"
    [] OTHER         -> "lm3"

\* an ETag header value: the tag between double quotes
Quoted(t) == [quoted |-> TRUE, tag |-> t]
Bare(t)   == [quoted |-> FALSE, tag |-> t]

RemoteETag(href) ==
  CASE href = HrefF1 -> Quoted("e1")
    [] href = HrefF2 -> Quoted("e2")
    [] OTHER         -> Quoted("e3")

\* .strip('"')
StripQuotes(v) == v.tag

\* ------------------------------------------------------- the destination
ObjNames == {"f1", "f2"}

\* list_objects_v2 returns the keys in lexicographic order
KeyOrder == << "f1", "f2" >>

\* base URLs: a plain one, and one with a percent-encoded space in its path
EncodedBase == "B%20"
Bases == {"B1", EncodedBase}
OtherBase == "B2"

\* put_object takes Tagging as URL query parameters; upload_file joins the
\* raw keys and values with "=" and "&", and the store keeps the decoded value
UrlDecode(v) == IF v = EncodedBase THEN "B " ELSE v

\* a metadata key or tag the object does not have (dict.get -> None)
None == "<none>"

\* objects that may be at the destination before the first pass
ForeignObj ==
  [source_md5 |-> None, source_length |-> None, source_last_modified |-> None,
   source_etag |-> None, ETag |-> Quoted("m0"),
   tag_source |-> None, tag_base |-> None, body |-> "c0"]

SyncedObj(base) ==
  [source_md5 |-> "m0", source_length |-> "1", source_last_modified |-> "lm0",
   source_etag |-> "e0", ETag |-> Quoted("m0"),
   tag_source |-> S3_TAG_SOURCE_VAL, tag_base |-> base, body |-> "c0"]

BaseOnlyObj(base) ==
  [SyncedObj(base) EXCEPT !.tag_source = None]

InitialObjs(base) ==
  { ForeignObj, SyncedObj(base), SyncedObj(OtherBase), BaseOnlyObj(base) }

\* --------------------------------------------------------- list_http_files
\* href.split("/")[-1]
LastSegment(href) == href[Len(href)]

\* not href or href in ("../", "./") or href.endswith("/")
SkippedHref(href) ==
  \/ href = HrefNone
  \/ href = HrefEmpty
  \/ href \in {HrefParent, HrefDot}
  \/ (Len(href) >= 2 /\ href[Len(href)] = "")

\* urljoin(base_url, href)
UrlJoin(base, href) == [base |-> base, href |-> href]

\* hr.headers if hr.ok else {}, read with headers.get(k, "")
HeadHeaders(href, resp, kinds) ==
  [ last_modified  |-> IF resp = "ok" /\ "lm" \in kinds
                       THEN RemoteLastModified(href) ELSE "",
    content_length |-> IF resp = "ok" /\ "len" \in kinds
                       THEN Str(Size(RemoteBody(href))) ELSE "",
    etag           |-> IF resp = "ok" /\ "etag" \in kinds
                       THEN RemoteETag(href) ELSE Bare("") ]

FileInfo(base, href, headers) ==
  [ url            |-> UrlJoin(base, href),
    last_modified  |-> headers.last_modified,
    content_length |-> headers.content_length,
    etag           |-> StripQuotes(headers.etag) ]

\* files[name] = {...}: a new key goes last, an existing key keeps its place
DictSet(d, name, info) ==
  [ order |-> IF name \in DOMAIN d.info THEN d.order ELSE Append(d.order, name),
    info  |-> [k \in DOMAIN d.info \cup {name} |->
                 IF k = name THEN info ELSE d.info[k]] ]

EmptyDict == [order |-> << >>, info |-> << >>]

\* the body of the loop over the anchors, for one anchor
ListOne(d, base, href, resp, kinds) ==
  IF SkippedHref(href) THEN d
  ELSE IF resp = "exc" THEN d
  ELSE DictSet(d, LastSegment(href),
               FileInfo(base, href, HeadHeaders(href, resp, kinds)))

RECURSIVE ListLoop(_, _, _, _, _, _)
ListLoop(d, base, pg, i, resps, kinds) ==
  IF i > Len(pg) THEN d
  ELSE ListLoop(ListOne(d, base, pg[i],
                        IF pg[i] \in DOMAIN resps THEN resps[pg[i]] ELSE "ok",
                        kinds),
                base, pg, i + 1, resps, kinds)

\* the mapping returned when the GET of the index succeeds
list_http_files(base, pg, resps, kinds) ==
  ListLoop(EmptyDict, base, pg, 1, resps, kinds)

\* ------------------------------------------------------ destination reads
\* head_object: << >> for a missing key (None), else <<object>>
head_s3_object(st, key) ==
  IF key \in DOMAIN st THEN << st[key] >> ELSE << >>

\* get_object_tagging; a ClientError gives {}
get_s3_tags(st, key, clientError) ==
  IF clientError
  THEN [source |-> None, source_url_base |-> None]
  ELSE [source |-> st[key].tag_source, source_url_base |-> st[key].tag_base]

\* ------------------------------------------------------ should_skip_upload
\* a variant in which the checksum rule also asks for the stored length
should_skip_upload_Md5NeedsLength(s3_head, src_meta) ==
  IF s3_head = << >> THEN FALSE
  ELSE LET meta == s3_head[1] IN
    IF /\ src_meta.md5 # "" /\ meta.source_md5 = src_meta.md5
       /\ meta.source_length = src_meta.content_length THEN TRUE
    ELSE IF /\ src_meta.content_length # ""
            /\ meta.source_length = src_meta.content_length
            /\ src_meta.last_modified # ""
            /\ meta.source_last_modified = src_meta.last_modified THEN TRUE
    ELSE IF /\ src_meta.etag # ""
            /\ \/ meta.source_etag = src_meta.etag
               \/ StripQuotes(meta.ETag) = src_meta.etag THEN TRUE
    ELSE FALSE

\* a variant that compares the entity tags without asking that the remote
\* one is non-empty
should_skip_upload_EmptyETagMatches(s3_head, src_meta) ==
  IF s3_head = << >> THEN FALSE
  ELSE LET meta == s3_head[1] IN
    IF src_meta.md5 # "" /\ meta.source_md5 = src_meta.md5 THEN TRUE
    ELSE IF /\ src_meta.content_length # ""
            /\ meta.source_length = src_meta.content_length
            /\ src_meta.last_modified # ""
            /\ meta.source_last_modified = src_meta.last_modified THEN TRUE
    ELSE IF \/ meta.source_etag = src_meta.etag
            \/ StripQuotes(meta.ETag) = src_meta.etag THEN TRUE
    ELSE FALSE

\* a variant without the checksum rule
should_skip_upload_NoMd5Rule(s3_head, src_meta) ==
  IF s3_head = << >> THEN FALSE
  ELSE LET meta == s3_head[1] IN
    IF /\ src_meta.content_length # ""
       /\ meta.source_length = src_meta.content_length
       /\ src_meta.last_modified # ""
       /\ meta.source_last_modified = src_meta.last_modified THEN TRUE
    ELSE IF /\ src_meta.etag # ""
            /\ \/ meta.source_etag = src_meta.etag
               \/ StripQuotes(meta.ETag) = src_meta.etag THEN TRUE
    ELSE FALSE

\* should_skip_upload(s3_head, src_meta)
should_skip_upload(s3_head, src_meta) ==
  IF s3_head = << >> THEN FALSE
  ELSE LET meta == s3_head[1] IN
    IF src_meta.md5 # "" /\ meta.source_md5 = src_meta.md5 THEN TRUE
    ELSE IF /\ src_meta.content_length # ""
            /\ meta.source_length = src_meta.content_length
            /\ src_meta.last_modified # ""
            /\ meta.source_last_modified = src_meta.last_modified THEN TRUE
    ELSE IF /\ src_meta.etag # ""
            /\ \/ meta.source_etag = src_meta.etag
               \/ StripQuotes(meta.ETag) = src_meta.etag THEN TRUE
    ELSE FALSE

\* ------------------------------------------------------------- process_one
\* base64 of the digest
B64(m) ==
  CASE m = ""   -> "1B2M2Y8AsgTpgAmY7PhCfg=="
    [] m = "m0" -> "b0"
    [] m = "m1" -> "b1"
    [] m = "m2" -> "b2"
    [] OTHER    -> "b3"

\* src_meta as built before the first decision
SrcMetaHead(info, base) ==
  [ url |-> info.url, last_modified |-> info.last_modified,
    content_length |-> info.content_length, etag |-> info.etag,
    base_url |-> base, md5 |-> "", md5_b64 |-> "" ]

\* src_meta after the download: md5, md5_b64 and content_length replaced
SrcMetaBody(info, base, body) ==
  [ SrcMetaHead(info, base) EXCEPT
      !.md5 = MD5(body), !.md5_b64 = B64(MD5(body)),
      !.content_length = Str(Size(body)) ]

\* a variant that stores the transfer form of the checksum as source_md5
upload_file_StoresB64(content, src_meta) ==
  [ source_md5 |-> src_meta.md5_b64,
    source_length |-> src_meta.content_length,
    source_last_modified |-> src_meta.last_modified,
    source_etag |-> src_meta.etag,
    ETag |-> Quoted(MD5(content)),
    tag_source |-> UrlDecode(S3_TAG_SOURCE_VAL),
    tag_base |-> UrlDecode(src_meta.base_url),
    body |-> content ]

\* the object put_object stores for upload_file(content, src_meta)
upload_file(content, src_meta) ==
  [ source_md5 |-> src_meta.md5,
    source_length |-> src_meta.content_length,
    source_last_modified |-> src_meta.last_modified,
    source_etag |-> src_meta.etag,
    ETag |-> Quoted(MD5(content)),
    tag_source |-> UrlDecode(S3_TAG_SOURCE_VAL),
    tag_base |-> UrlDecode(src_meta.base_url),
    body |-> content ]

\* --------------------------------------------------- delete_removed_objects
\* a variant that is content with either tag
DeleteEligible_EitherTag(tags, base) ==
  tags.source = S3_TAG_SOURCE_VAL \/ tags.source_url_base = base

\* the condition under which delete_object is called for a listed key
DeleteEligible(tags, base) ==
  tags.source = S3_TAG_SOURCE_VAL /\ tags.source_url_base = base

\* ------------------------------------------------------------------ state
VARIABLES
  page,         \* the anchors of the remote index page
  hdrs,         \* the header kinds the remote supplies on HEAD
  headResp,     \* per file url: how the remote answers HEAD
  store,        \* the destination: name under the prefix -> object
  base_url,     \* --base-url
  do_delete,    \* --delete
  concurrency,  \* --concurrency
  endpointUp,   \* whether the destination endpoint is reachable in this pass
  passNo,       \* which invocation of main() this is
  phase,        \* "start", "tasks", "reconcile", "done"
  files,        \* the dict returned by list_http_files
  task,         \* per listed name: where its process_one future is
  tries,        \* per listed name: the loop index i of download_with_retries
                \* while it runs (0 outside of it)
  slept,        \* per listed name: the seconds of the last backoff_sleep of
                \* its download loop (0 when the loop ended without raising)
  store0,       \* the destination as it was when the pass began
  raced,        \* <<pass, name>>: another writer put the object while the
                \* task of the name was between its two decisions
  collected,    \* the futures the as_completed loop has handled
  results,      \* results = {"uploaded": [], "skipped": []}
  fetched,      \* names whose body was downloaded in this pass
  puts,         \* names for which put_object was called in this pass
  queue,        \* the keys delete_removed_objects still has to visit
  deleted,      \* names for which delete_object succeeded in this pass
  faulted,      \* keys whose tag fetch or delete raised in this pass
  exit,         \* how the process ended
  prevClean,    \* the previous pass ended normally with no failed task
  indexFailed,  \* the GET of the index failed in this pass
  \* rearc_data_local_sync.py
  ldir,         \* dest_dir: file name -> size in bytes
  lphase,       \* "start", "decide", "delete", "done"
  lremote,      \* remote_files, the list of (filename, url)
  lnext,        \* the position of the loop over remote_files
  ltask,        \* per position: "none", "skip", "submitted", "writing", "done"
  lwalk,        \* the files os.walk still has to yield
  lwritten,     \* names download_file opened for writing
  lremoved,     \* names os.remove deleted
  lexit,        \* how sync_files ended
  lforeign,     \* files of dest_dir that someone else put there
  \* a single evaluation of should_skip_upload
  probe

vars == << page, hdrs, headResp, store, base_url, do_delete, concurrency,
           endpointUp, passNo, phase, files, task, tries, collected, results,
           fetched, puts, queue, deleted, faulted, exit, prevClean,
           indexFailed, ldir, lphase, lremote, lnext, ltask, lwalk, lwritten,
           lremoved, lexit, probe, slept, store0, raced, lforeign >>

localVars == << ldir, lphase, lremote, lnext, ltask, lwalk, lwritten,
                lremoved, lexit, lforeign >>
s3Vars == << store, endpointUp, passNo, phase, files, task, tries, collected,
             results, fetched, puts, queue, deleted, faulted, exit, prevClean,
             slept, store0, raced >>

syncFixed == << page, hdrs, headResp, localVars, probe >>
paramVars  == << base_url, do_delete, concurrency >>

Names == DOMAIN files.info

Running == {"downloading", "downloaded", "committing"}
Finished == {"uploaded", "skipped", "failed_dl", "failed_s3"}

\* max_workers = max(1, concurrency)
MaxWorkers == IF concurrency > 1 THEN concurrency ELSE 1

Concurrencies == {0, 2}

EmptyResults == [uploaded |-> << >>, skipped |-> << >>]

\* the file hrefs a page links to
PageFileHrefs(pg) == {pg[i] : i \in 1..Len(pg)} \cap FileHrefs

\* the remote and the command line
InitRemote ==
  /\ page \in IndexPages
  /\ hdrs \in HeaderProfiles
  /\ headResp \in [FileHrefs -> HeadOutcomes]
  /\ \A h \in FileHrefs \ PageFileHrefs(page) : headResp[h] = "ok"
  /\ base_url \in Bases
  /\ do_delete \in BOOLEAN
  /\ indexFailed = FALSE

\* rearc_data_local_sync.py is not running
LocalOff ==
  /\ ldir = << >>
  /\ lphase = "off"
  /\ lremote = << >>
  /\ lnext = 1
  /\ ltask = << >>
  /\ lwalk = << >>
  /\ lwritten = {}
  /\ lremoved = {}
  /\ lexit = "running"
  /\ lforeign = {}

Init ==
  /\ InitRemote
  /\ LocalOff
  /\ probe = << >>
  /\ \E present \in SUBSET ObjNames :
       store \in [present -> InitialObjs(base_url)]
  /\ base_url = EncodedBase =>
       (page = << HrefParent, HrefSubdir, HrefF1 >> /\ hdrs = {"lm", "len", "etag"})
  /\ concurrency \in Concurrencies
  /\ endpointUp \in BOOLEAN
  /\ passNo = 1
  /\ phase = "start"
  /\ files = EmptyDict
  /\ task = << >>
  /\ tries = << >>
  /\ collected = {}
  /\ results = EmptyResults
  /\ fetched = {}
  /\ puts = {}
  /\ queue = << >>
  /\ deleted = {}
  /\ faulted = {}
  /\ exit = "running"
  /\ prevClean = FALSE
  /\ slept = << >>
  /\ store0 = store
  /\ raced = {}

\* ------------------------------------------------------------------- sync
\* list_http_files returns: one future per listed name is submitted
ListOk ==
  /\ phase = "start"
  /\ files' = list_http_files(base_url, page, headResp, hdrs)
  /\ task' = [n \in DOMAIN files'.info |-> "queued"]
  /\ tries' = [n \in DOMAIN files'.info |-> 0]
  /\ slept' = [n \in DOMAIN files'.info |-> 0]
  /\ phase' = "tasks"
  /\ UNCHANGED << syncFixed, paramVars, store0, raced, store, endpointUp, passNo, collected,
                  results, fetched, puts, queue, deleted, faulted, exit,
                  prevClean, indexFailed >>

\* the GET of the index raises: nothing in sync() or main() catches it
ListFail ==
  /\ phase = "start"
  /\ phase' = "done"
  /\ exit' = "uncaught"
  /\ indexFailed' = TRUE
  /\ UNCHANGED << syncFixed, paramVars, store0, raced, slept, store, endpointUp,
                  passNo, files,
                  task, tries, collected, results, fetched, puts, queue,
                  deleted, faulted, prevClean >>

\* time.sleep(min(60, 2 ** try_idx)): the seconds slept
backoff_sleep(try_idx) == IF 2 ^ try_idx < 60 THEN 2 ^ try_idx ELSE 60

\* a worker is free and n is the next submitted future
CanStart(n) ==
  /\ phase = "tasks"
  /\ task[n] = "queued"
  /\ Cardinality({m \in Names : task[m] \in Running}) < MaxWorkers
  /\ \A i, j \in 1..Len(files.order) :
       (files.order[j] = n /\ i < j) => task[files.order[i]] # "queued"

taskUnchanged == << syncFixed, paramVars, store0, raced, endpointUp, passNo,
                    phase, files,
                    collected, results, queue, deleted, faulted, exit,
                    prevClean, indexFailed >>

\* process_one up to the first decision
FirstDecision(n) ==
  /\ CanStart(n)
  /\ endpointUp
  /\ LET s3_head  == head_s3_object(store, n)
         src_meta == SrcMetaHead(files.info[n], base_url)
     IN task' = [task EXCEPT ![n] =
                   IF should_skip_upload(s3_head, src_meta)
                   THEN "skipped" ELSE "downloading"]
  /\ UNCHANGED << taskUnchanged, store, tries, slept, fetched, puts >>

\* download_with_retries with one attempt more than max_tries
DownloadRetry_OneMore(n) ==
  /\ phase = "tasks"
  /\ task[n] = "downloading"
  /\ tries[n] < max_tries + 1
  /\ tries' = [tries EXCEPT ![n] =
                 IF tries[n] = max_tries THEN 0 ELSE tries[n] + 1]
  /\ task' = [task EXCEPT ![n] =
                IF tries[n] = max_tries THEN "failed_dl" ELSE "downloading"]
  /\ slept' = [slept EXCEPT ![n] = backoff_sleep(tries[n])]
  /\ UNCHANGED << taskUnchanged, store, fetched, puts >>

\* one failed attempt of download_with_retries
DownloadRetry(n) ==
  /\ phase = "tasks"
  /\ task[n] = "downloading"
  /\ tries[n] < max_tries
  /\ tries' = [tries EXCEPT ![n] =
                 IF tries[n] + 1 = max_tries THEN 0 ELSE tries[n] + 1]
  /\ task' = [task EXCEPT ![n] =
                IF tries[n] + 1 = max_tries THEN "failed_dl" ELSE "downloading"]
  /\ slept' = [slept EXCEPT ![n] = backoff_sleep(tries[n])]
  /\ UNCHANGED << taskUnchanged, store, fetched, puts >>

\* an attempt succeeds and the body is read to its end
DownloadOk(n) ==
  /\ phase = "tasks"
  /\ task[n] = "downloading"
  /\ tries[n] < max_tries
  /\ task' = [task EXCEPT ![n] = "downloaded"]
  /\ tries' = [tries EXCEPT ![n] = 0]
  /\ slept' = [slept EXCEPT ![n] = 0]
  /\ fetched' = fetched \cup {n}
  /\ UNCHANGED << taskUnchanged, store, puts >>

\* a variant in which the error is swallowed and the task goes on with the
\* part of the body it has
DownloadStreamError_Swallowed(n) ==
  /\ phase = "tasks"
  /\ task[n] = "downloading"
  /\ tries[n] < max_tries
  /\ task' = [task EXCEPT ![n] = "downloaded"]
  /\ tries' = [tries EXCEPT ![n] = 0]
  /\ slept' = [slept EXCEPT ![n] = 0]
  /\ UNCHANGED << taskUnchanged, store, fetched, puts >>

\* an attempt succeeds but reading the body raises
DownloadStreamError(n) ==
  /\ phase = "tasks"
  /\ task[n] = "downloading"
  /\ tries[n] < max_tries
  /\ task' = [task EXCEPT ![n] = "failed_dl"]
  /\ tries' = [tries EXCEPT ![n] = 0]
  /\ slept' = [slept EXCEPT ![n] = 0]
  /\ UNCHANGED << taskUnchanged, store, fetched, puts >>

\* the second head_s3_object and the decision before the commit
SecondDecision(n) ==
  /\ phase = "tasks"
  /\ task[n] = "downloaded"
  /\ endpointUp
  /\ LET s3_head  == head_s3_object(store, n)
         body     == RemoteBody(files.info[n].url.href)
         src_meta == SrcMetaBody(files.info[n], base_url, body)
     IN task' = [task EXCEPT ![n] =
                   IF should_skip_upload(s3_head, src_meta)
                   THEN "skipped" ELSE "committing"]
  /\ UNCHANGED << taskUnchanged, store, tries, slept, fetched, puts >>

\* upload_file: put_object succeeds
Put(n) ==
  /\ phase = "tasks"
  /\ task[n] = "committing"
  /\ endpointUp
  /\ LET body     == RemoteBody(files.info[n].url.href)
         src_meta == SrcMetaBody(files.info[n], base_url, body)
     IN store' = [k \in DOMAIN store \cup {n} |->
                    IF k = n THEN upload_file(body, src_meta) ELSE store[k]]
  /\ task' = [task EXCEPT ![n] = "uploaded"]
  /\ puts' = puts \cup {n}
  /\ UNCHANGED << taskUnchanged, tries, slept, fetched >>

\* a destination call of process_one raises (ClientError other than 404,
\* or EndpointConnectionError): the exception stays in the future
TaskS3Error(n) ==
  /\ \/ CanStart(n)
     \/ (phase = "tasks" /\ task[n] \in {"downloaded", "committing"})
  /\ task' = [task EXCEPT ![n] = "failed_s3"]
  /\ puts' = IF task[n] = "committing" THEN puts \cup {n} ELSE puts
  /\ UNCHANGED << taskUnchanged, store, tries, slept, fetched >>

\* one turn of the as_completed loop
Collect(n) ==
  /\ phase = "tasks"
  /\ n \notin collected
  /\ task[n] \in Finished
  /\ collected' = collected \cup {n}
  /\ results' =
       IF task[n] = "uploaded"
       THEN [results EXCEPT !.uploaded = Append(@, n)]
       ELSE IF task[n] = "skipped"
       THEN [results EXCEPT !.skipped = Append(@, n)]
       ELSE results
  /\ UNCHANGED << syncFixed, paramVars, store0, raced, slept, store, endpointUp,
                  passNo, phase,
                  files, task, tries, fetched, puts, queue, deleted, faulted,
                  exit, prevClean, indexFailed >>

\* a variant that does not wait for the futures
AllCollected_NoWait == phase = "tasks"

\* the as_completed loop has consumed every future
AllCollected == phase = "tasks" /\ collected = Names

\* a variant that reads the first key only
ListedKeys_FirstOnly(st, i) ==
  IF \E j \in i..Len(KeyOrder) : KeyOrder[j] \in DOMAIN st
  THEN << KeyOrder[CHOOSE j \in i..Len(KeyOrder) :
                     /\ KeyOrder[j] \in DOMAIN st
                     /\ \A l \in i..(j - 1) : KeyOrder[l] \notin DOMAIN st] >>
  ELSE << >>

\* the keys list_objects_v2 returns for the prefix
RECURSIVE ListedKeys(_, _)
ListedKeys(st, i) ==
  IF i > Len(KeyOrder) THEN << >>
  ELSE IF KeyOrder[i] \in DOMAIN st
       THEN << KeyOrder[i] >> \o ListedKeys(st, i + 1)
       ELSE ListedKeys(st, i + 1)

\* do_delete is false: sync() logs the counts and returns, main() ends
FinishNoDelete ==
  /\ AllCollected
  /\ ~do_delete
  /\ phase' = "done"
  /\ exit' = "success"
  /\ UNCHANGED << syncFixed, paramVars, store0, raced, slept, store, endpointUp,
                  passNo, files,
                  task, tries, collected, results, fetched, puts, queue,
                  deleted, faulted, prevClean, indexFailed >>

\* delete_removed_objects starts: the paginator lists the prefix
ReconcileStart ==
  /\ AllCollected
  /\ do_delete
  /\ endpointUp
  /\ queue' = ListedKeys(store, 1)
  /\ phase' = "reconcile"
  /\ UNCHANGED << syncFixed, paramVars, store0, raced, slept, store, endpointUp,
                  passNo, files,
                  task, tries, collected, results, fetched, puts, deleted,
                  faulted, exit, prevClean, indexFailed >>

\* the paginator raises EndpointConnectionError: main() exits with 1
ReconcileEndpointError ==
  /\ AllCollected
  /\ do_delete
  /\ ~endpointUp
  /\ phase' = "done"
  /\ exit' = "infra"
  /\ UNCHANGED << syncFixed, paramVars, store0, raced, slept, store, endpointUp,
                  passNo, files,
                  task, tries, collected, results, fetched, puts, queue,
                  deleted, faulted, prevClean, indexFailed >>

reconUnchanged == << syncFixed, paramVars, store0, raced, slept, endpointUp,
                     passNo, files, task,
                     tries, collected, results, fetched, puts, prevClean,
                     indexFailed >>

\* one turn of the loop over the listed objects
ReconcileStep ==
  /\ phase = "reconcile"
  /\ queue # << >>
  /\ LET key == Head(queue) IN
       \/ /\ key \in Names
          /\ queue' = Tail(queue)
          /\ UNCHANGED << store, deleted, faulted, phase, exit >>
       \/ /\ key \notin Names
          /\ \E tagError \in BOOLEAN :
               LET tags == get_s3_tags(store, key, tagError) IN
                 /\ faulted' = IF tagError THEN faulted \cup {key} ELSE faulted
                 /\ IF DeleteEligible(tags, base_url)
                    THEN /\ store' = [k \in DOMAIN store \ {key} |-> store[k]]
                         /\ deleted' = deleted \cup {key}
                         /\ queue' = Tail(queue)
                         /\ UNCHANGED << phase, exit >>
                    ELSE /\ queue' = Tail(queue)
                         /\ UNCHANGED << store, deleted, phase, exit >>
  /\ UNCHANGED reconUnchanged

\* delete_object raises ClientError: nothing catches it
ReconcileDeleteError ==
  /\ phase = "reconcile"
  /\ queue # << >>
  /\ Head(queue) \notin Names
  /\ DeleteEligible(get_s3_tags(store, Head(queue), FALSE), base_url)
  /\ phase' = "done"
  /\ exit' = "uncaught"
  /\ faulted' = faulted \cup {Head(queue)}
  /\ UNCHANGED << reconUnchanged, store, deleted, queue >>

\* the loop ends: sync() logs the counts and returns, main() ends
ReconcileEnd ==
  /\ phase = "reconcile"
  /\ queue = << >>
  /\ phase' = "done"
  /\ exit' = "success"
  /\ UNCHANGED << reconUnchanged, store, deleted, faulted, queue >>

\* main() is run again against the same remote and destination
NextPass ==
  /\ phase = "done"
  /\ passNo < MaxPasses
  /\ passNo' = passNo + 1
  /\ prevClean' = (exit = "success" /\ \A n \in Names : task[n] \in {"uploaded", "skipped"})
  /\ endpointUp' \in BOOLEAN
  /\ phase' = "start"
  /\ files' = EmptyDict
  /\ task' = << >>
  /\ tries' = << >>
  /\ collected' = {}
  /\ results' = EmptyResults
  /\ fetched' = {}
  /\ puts' = {}
  /\ queue' = << >>
  /\ deleted' = {}
  /\ faulted' = {}
  /\ exit' = "running"
  /\ indexFailed' = FALSE
  /\ slept' = << >>
  /\ store0' = store
  /\ UNCHANGED << syncFixed, paramVars, raced, store >>

Next ==
  \/ ListOk
  \/ ListFail
  \/ \E n \in Names : FirstDecision(n)
  \/ \E n \in Names : DownloadRetry(n)
  \/ \E n \in Names : DownloadOk(n)
  \/ \E n \in Names : DownloadStreamError(n)
  \/ \E n \in Names : SecondDecision(n)
  \/ \E n \in Names : Put(n)
  \/ \E n \in Names : TaskS3Error(n)
  \/ \E n \in Names : Collect(n)
  \/ FinishNoDelete
  \/ ReconcileStart
  \/ ReconcileEndpointError
  \/ ReconcileStep
  \/ ReconcileDeleteError
  \/ ReconcileEnd
  \/ NextPass

Spec == Init /\ [][Next]_vars

\* ------------------------------------------- two invocations of sync()
\* A second invocation of the same sync (same base URL, same remote) runs
\* process_one for the same name and reaches upload_file while the task of
\* this invocation is between its first decision and its re-check.
OtherWriterPut(n) ==
  /\ phase = "tasks"
  /\ task[n] \in {"downloading", "downloaded"}
  /\ endpointUp
  /\ << passNo, n >> \notin raced
  /\ LET body     == RemoteBody(files.info[n].url.href)
         src_meta == SrcMetaBody(files.info[n], base_url, body)
     IN store' = [k \in DOMAIN store \cup {n} |->
                    IF k = n THEN upload_file(body, src_meta) ELSE store[k]]
  /\ raced' = raced \cup {<< passNo, n >>}
  /\ UNCHANGED << syncFixed, paramVars, store0, endpointUp, passNo, phase,
                  files, task, tries, slept, collected, results, fetched,
                  puts, queue, deleted, faulted, exit, prevClean, indexFailed >>

RacePages == { << HrefParent, HrefSubdir, HrefF1 >>, << HrefF1, HrefNested >> }

RaceProfiles == { {"len"}, {"lm", "len", "etag"} }

InitRace ==
  /\ Init
  /\ page \in RacePages
  /\ hdrs \in RaceProfiles
  /\ base_url = "B1"

NextRace ==
  \/ Next
  \/ \E n \in Names : OtherWriterPut(n)

SpecRace == InitRace /\ [][NextRace]_vars

\* ------------------------------------------------ rearc_data_local_sync.py
\* the sync to S3 is not running
S3Off ==
  /\ store = << >>
  /\ endpointUp = TRUE
  /\ passNo = 1
  /\ phase = "off"
  /\ files = EmptyDict
  /\ task = << >>
  /\ tries = << >>
  /\ collected = {}
  /\ results = EmptyResults
  /\ fetched = {}
  /\ puts = {}
  /\ queue = << >>
  /\ deleted = {}
  /\ faulted = {}
  /\ exit = "running"
  /\ prevClean = FALSE
  /\ slept = << >>
  /\ store0 = << >>
  /\ raced = {}

LocalSizes == {2, 3}
LocalConcurrencies == {1, 2}

\* href.strip("/")
RECURSIVE StripSlashes(_)
StripSlashes(href) ==
  IF Len(href) >= 2 /\ href[1] = "" THEN StripSlashes(Tail(href))
  ELSE IF Len(href) >= 2 /\ href[Len(href)] = ""
       THEN StripSlashes(SubSeq(href, 1, Len(href) - 1))
  ELSE href

\* os.path.basename
Basename(path) == path[Len(path)]

\* the two "continue" tests of list_remote_files
LocalSkippedHref(href) ==
  \/ href = HrefNone
  \/ href = HrefEmpty
  \/ href = HrefParent
  \/ (Len(href) >= 2 /\ href[Len(href)] = "")

RECURSIVE LinksFrom(_, _, _)
LinksFrom(base, pg, i) ==
  IF i > Len(pg) THEN << >>
  ELSE IF LocalSkippedHref(pg[i]) \/ Basename(StripSlashes(pg[i])) = ""
       THEN LinksFrom(base, pg, i + 1)
       ELSE << [name |-> Basename(StripSlashes(pg[i])),
                url  |-> UrlJoin(base, pg[i])] >>
            \o LinksFrom(base, pg, i + 1)

\* the list returned when the GET of the index succeeds
list_remote_files(base, pg) == LinksFrom(base, pg, 1)

\* int(head.headers.get("Content-Length", -1))
RemoteSize(href, kinds) ==
  IF "len" \in kinds THEN Size(RemoteBody(href)) ELSE -1

needs_download(href, resp, kinds, dir, name) ==
  IF resp # "ok" THEN TRUE
  ELSE IF name \notin DOMAIN dir THEN TRUE
  ELSE IF dir[name] # RemoteSize(href, kinds) THEN TRUE
  ELSE FALSE

InitLocal ==
  /\ InitRemote
  /\ S3Off
  /\ probe = << >>
  /\ concurrency \in LocalConcurrencies
  /\ \E present \in SUBSET ObjNames : ldir \in [present -> LocalSizes]
  /\ lforeign \in SUBSET DOMAIN ldir
  /\ lphase = "start"
  /\ lremote = << >>
  /\ lnext = 1
  /\ ltask = << >>
  /\ lwalk = << >>
  /\ lwritten = {}
  /\ lremoved = {}
  /\ lexit = "running"

localFixed == << page, hdrs, headResp, paramVars, s3Vars, probe, lforeign >>

LListOk ==
  /\ lphase = "start"
  /\ lremote' = list_remote_files(base_url, page)
  /\ ltask' = [i \in 1..Len(lremote') |-> "none"]
  /\ lphase' = "decide"
  /\ UNCHANGED << localFixed, indexFailed, ldir, lnext, lwalk, lwritten,
                  lremoved, lexit >>

\* the GET raises: list_remote_files prints the error and returns []
LListFail ==
  /\ lphase = "start"
  /\ lremote' = << >>
  /\ ltask' = << >>
  /\ indexFailed' = TRUE
  /\ lphase' = "decide"
  /\ UNCHANGED << localFixed, ldir, lnext, lwalk, lwritten, lremoved, lexit >>

\* one turn of the loop over remote_files: needs_download, then submit
LDecide ==
  /\ lphase = "decide"
  /\ lnext <= Len(lremote)
  /\ LET e == lremote[lnext] IN
       ltask' = [ltask EXCEPT ![lnext] =
                   IF needs_download(e.url.href, headResp[e.url.href], hdrs,
                                     ldir, e.name)
                   THEN "submitted" ELSE "skip"]
  /\ lnext' = lnext + 1
  /\ UNCHANGED << localFixed, indexFailed, ldir, lphase, lremote, lwalk,
                  lwritten, lremoved, lexit >>

LCanStart(i) ==
  /\ lphase = "decide"
  /\ ltask[i] = "submitted"
  /\ Cardinality({j \in DOMAIN ltask : ltask[j] = "writing"}) < concurrency
  /\ \A j \in DOMAIN ltask : j < i => ltask[j] # "submitted"

\* download_file: the GET succeeds and the file is opened with "wb"
LOpen(i) ==
  /\ LCanStart(i)
  /\ ltask' = [ltask EXCEPT ![i] = "writing"]
  /\ ldir' = [k \in DOMAIN ldir \cup {lremote[i].name} |->
                IF k = lremote[i].name THEN 0 ELSE ldir[k]]
  /\ lwritten' = lwritten \cup {lremote[i].name}
  /\ UNCHANGED << localFixed, indexFailed, lphase, lremote, lnext, lwalk,
                  lremoved, lexit >>

\* download_file: the GET raises; the exception is printed
LGetFail(i) ==
  /\ LCanStart(i)
  /\ ltask' = [ltask EXCEPT ![i] = "done"]
  /\ UNCHANGED << localFixed, indexFailed, ldir, lphase, lremote, lnext,
                  lwalk, lwritten, lremoved, lexit >>

\* download_file: every chunk is written
LWriteOk(i) ==
  /\ lphase = "decide"
  /\ ltask[i] = "writing"
  /\ ltask' = [ltask EXCEPT ![i] = "done"]
  /\ ldir' = [ldir EXCEPT ![lremote[i].name] =
                Size(RemoteBody(lremote[i].url.href))]
  /\ UNCHANGED << localFixed, indexFailed, lphase, lremote, lnext, lwalk,
                  lwritten, lremoved, lexit >>

\* download_file: reading a chunk raises; the exception is printed
LWriteFail(i) ==
  /\ lphase = "decide"
  /\ ltask[i] = "writing"
  /\ ltask' = [ltask EXCEPT ![i] = "done"]
  /\ UNCHANGED << localFixed, indexFailed, ldir, lphase, lremote, lnext,
                  lwalk, lwritten, lremoved, lexit >>

LAllDone ==
  /\ lphase = "decide"
  /\ lnext > Len(lremote)
  /\ \A j \in DOMAIN ltask : ltask[j] \in {"skip", "done"}

\* delete is false: sync_files returns
LFinishNoDelete ==
  /\ LAllDone
  /\ ~do_delete
  /\ lphase' = "done"
  /\ lexit' = "success"
  /\ UNCHANGED << localFixed, indexFailed, ldir, lremote, lnext, ltask, lwalk,
                  lwritten, lremoved >>

\* delete is true: os.walk(dest_dir) starts
LDeleteStart ==
  /\ LAllDone
  /\ do_delete
  /\ lwalk' = ListedKeys(ldir, 1)
  /\ lphase' = "delete"
  /\ UNCHANGED << localFixed, indexFailed, ldir, lremote, lnext, ltask,
                  lwritten, lremoved, lexit >>

\* remote_names = {name for name, _ in remote_files}
RemoteNames == {lremote[i].name : i \in 1..Len(lremote)}

\* one file of the walk; os.remove may raise OSError, which is printed
LDeleteStep ==
  /\ lphase = "delete"
  /\ lwalk # << >>
  /\ lwalk' = Tail(lwalk)
  /\ \/ /\ Head(lwalk) \notin RemoteNames
        /\ ldir' = [k \in DOMAIN ldir \ {Head(lwalk)} |-> ldir[k]]
        /\ lremoved' = lremoved \cup {Head(lwalk)}
     \/ UNCHANGED << ldir, lremoved >>
  /\ UNCHANGED << localFixed, indexFailed, lphase, lremote, lnext, ltask,
                  lwritten, lexit >>

LDeleteEnd ==
  /\ lphase = "delete"
  /\ lwalk = << >>
  /\ lphase' = "done"
  /\ lexit' = "success"
  /\ UNCHANGED << localFixed, indexFailed, ldir, lremote, lnext, ltask, lwalk,
                  lwritten, lremoved >>

NextLocal ==
  \/ LListOk
  \/ LListFail
  \/ LDecide
  \/ \E i \in DOMAIN ltask : LOpen(i)
  \/ \E i \in DOMAIN ltask : LGetFail(i)
  \/ \E i \in DOMAIN ltask : LWriteOk(i)
  \/ \E i \in DOMAIN ltask : LWriteFail(i)
  \/ LFinishNoDelete
  \/ LDeleteStart
  \/ LDeleteStep
  \/ LDeleteEnd

SpecLocal == InitLocal /\ [][NextLocal]_vars

\* ---------------------------------------- should_skip_upload on its own
StoredMD5s  == {"", "m1", "m2"}
StoredLens  == {"", "2", "3"}
StoredLMs   == {"", "lm1", "lm2"}
StoredETags == {"", "e1", "e2"}
NativeETags == {Quoted("m1"), Quoted("e1")}

OracleHeads ==
  { << >>, << ForeignObj >> } \cup
  { << [source_md5 |-> a, source_length |-> b, source_last_modified |-> c,
        source_etag |-> d, ETag |-> e, tag_source |-> S3_TAG_SOURCE_VAL,
        tag_base |-> "B1", body |-> "c1"] >> :
      a \in StoredMD5s, b \in StoredLens, c \in StoredLMs, d \in StoredETags,
      e \in NativeETags }

OracleMetas ==
  { [url |-> UrlJoin("B1", HrefF1), last_modified |-> c, content_length |-> b,
     etag |-> d, base_url |-> "B1", md5 |-> a, md5_b64 |-> B64(a)] :
      a \in StoredMD5s, b \in StoredLens, c \in StoredLMs, d \in StoredETags }

InitOracle ==
  /\ page = << >>
  /\ hdrs = {}
  /\ headResp = [h \in FileHrefs |-> "ok"]
  /\ base_url = "B1"
  /\ do_delete = FALSE
  /\ concurrency = 1
  /\ indexFailed = FALSE
  /\ S3Off
  /\ LocalOff
  /\ probe = << >>

\* should_skip_upload is called with some record and some remote entry
Probe ==
  /\ probe = << >>
  /\ \E h \in OracleHeads, m \in OracleMetas :
       probe' = << [s3_head |-> h, src_meta |-> m,
                    result |-> should_skip_upload(h, m)] >>
  /\ UNCHANGED << page, hdrs, headResp, paramVars, s3Vars, indexFailed,
                  localVars >>

NextOracle == Probe

SpecOracle == InitOracle /\ [][NextOracle]_vars

\* ================================================================ claims
\* the object carries both provenance tags of a sync with this base url
CarriesTags(obj, base) == obj.tag_source = "bls" /\ obj.tag_base = base

\* the names of the file hyperlinks of an index page
IndexFileNames(pg) ==
  {LastSegment(pg[i]) : i \in {j \in 1..Len(pg) : pg[j] \in FileHrefs}}

FailedTasks == {n \in Names : task[n] \in {"failed_dl", "failed_s3"}}

\* C1: Safety of deletion. Whenever an object under the prefix disappears
\* from the destination, it carried both provenance tags (source=bls and
\* source_url_base = the base url of the pass) just before; an object lacking
\* either tag is never deleted, whether or not its name is listed.
C1_SafeDeletion ==
  [][\A k \in DOMAIN store :
       k \notin DOMAIN store' => CarriesTags(store[k], base_url)]_vars

\* C1 witness: a delete-enabled pass has ended, it deleted something, and an
\* object without both tags whose name is not in the listing is still there.
C1_Witness ==
  /\ phase = "done" /\ do_delete /\ exit = "success"
  /\ deleted # {}
  /\ \E k \in DOMAIN store \ Names : ~CarriesTags(store[k], base_url)

\* C2: Reconciliation correctness, as claimed. At the end of a delete-enabled
\* pass no object remains that carries the tags of this base url and whose
\* name is absent from the listing; and no object whose name is a file
\* hyperlink of the remote index is deleted by the pass.
C2_Claim ==
  /\ (phase = "done" /\ do_delete /\ exit = "success") =>
        \A k \in DOMAIN store \ Names : ~CarriesTags(store[k], base_url)
  /\ do_delete => deleted \cap IndexFileNames(page) = {}

\* C3: Idempotence. In a pass that follows a pass without failures against
\* the same remote, put_object is never called: no task reaches the commit,
\* nothing is recorded as uploaded, and a pass that ends normally has every
\* task skipped or failed by a fault of that pass.
C3_Idempotent ==
  prevClean =>
    /\ puts = {}
    /\ results.uploaded = << >>
    /\ \A n \in Names : task[n] \notin {"committing", "uploaded"}
    /\ \A n \in Names \ FailedTasks : task[n] \in Finished => task[n] = "skipped"

\* C3 witness: the second pass after a clean first pass has ended with both
\* listed files skipped, one of them only after its body was downloaded.
C3_Witness ==
  /\ passNo = 2 /\ prevClean /\ phase = "done" /\ exit = "success"
  /\ Cardinality(Names) = 2
  /\ Len(results.skipped) = 2
  /\ fetched # {}

\* the failures the summary of the pass reports
ReportedFailed ==
  IF "failed" \in DOMAIN results THEN results["failed"] ELSE << >>

\* C4: Partial-failure isolation, as claimed. When a pass over two or more
\* files ends with exactly one download failed for good and no other fault,
\* the other files are recorded as uploaded or skipped, the result summary
\* reports exactly that one file as failed, and the exit status is success.
C4_Claim ==
  LET failedDl == {n \in Names : task[n] = "failed_dl"} IN
    ( /\ phase = "done" /\ ~indexFailed
      /\ Cardinality(Names) >= 2
      /\ Cardinality(failedDl) = 1
      /\ \A n \in Names : task[n] # "failed_s3" )
    => /\ exit = "success"
       /\ \A n \in Names \ failedDl :
            \E i \in 1..Len(results.uploaded \o results.skipped) :
              (results.uploaded \o results.skipped)[i] = n
       /\ Len(ReportedFailed) = 1
       /\ \A n \in failedDl : ReportedFailed = << n >>

\* C5: Index-fetch failure is fatal, as claimed. Once the GET of the index
\* has failed, nothing is transferred and nothing is deleted at the
\* destination, and the pass does not end normally.
C5_Claim ==
  indexFailed =>
    /\ puts = {} /\ deleted = {}
    /\ lwritten = {} /\ lremoved = {}
    /\ exit # "success" /\ lexit # "success"

\* C6: HEAD failure degrades, never drops, as claimed. After a successful
\* listing every file hyperlink of the index page has its name in the
\* returned mapping, and an entry whose HEAD did not succeed has empty
\* last_modified, content_length and etag.
C6_Claim ==
  (phase \in {"tasks", "reconcile", "done"} /\ ~indexFailed) =>
    /\ \A i \in 1..Len(page) :
         page[i] \in FileHrefs => LastSegment(page[i]) \in Names
    /\ \A n \in Names :
         headResp[files.info[n].url.href] # "ok" =>
           /\ files.info[n].last_modified = ""
           /\ files.info[n].content_length = ""
           /\ files.info[n].etag = ""

\* the stored value exists
Exists(v) == v # None /\ v # ""

\* the priority-ordered rule of the Staleness Oracle
DecisionRule(rec, entry) ==
  CASE rec = << >> -> FALSE
    [] rec # << >> /\ Exists(entry.md5) /\ Exists(rec[1].source_md5)
         /\ entry.md5 = rec[1].source_md5 -> TRUE
    [] OTHER ->
         CASE /\ rec # << >>
              /\ Exists(entry.content_length) /\ Exists(entry.last_modified)
              /\ entry.content_length = rec[1].source_length
              /\ entry.last_modified = rec[1].source_last_modified -> TRUE
           [] OTHER ->
                /\ rec # << >>
                /\ Exists(entry.etag)
                /\ \/ entry.etag = rec[1].source_etag
                   \/ entry.etag = rec[1].ETag.tag

\* C7: Staleness decision order. Every evaluation of should_skip_upload
\* returns what the priority-ordered rule gives (absent record, checksum,
\* length with last-modified, entity tag, else not current); a matching
\* checksum gives current even when the stored length differs.
C7_DecisionOrder ==
  probe # << >> =>
    /\ probe[1].result = DecisionRule(probe[1].s3_head, probe[1].src_meta)
    /\ ( /\ probe[1].s3_head # << >>
         /\ probe[1].src_meta.md5 # ""
         /\ probe[1].s3_head[1].source_md5 = probe[1].src_meta.md5 )
       => probe[1].result = TRUE

\* C7 witness: an evaluation with equal checksums and a stored length that
\* differs from the remote one, judged current.
C7_Witness ==
  /\ probe # << >>
  /\ probe[1].s3_head # << >>
  /\ probe[1].src_meta.md5 # ""
  /\ probe[1].s3_head[1].source_md5 = probe[1].src_meta.md5
  /\ probe[1].src_meta.content_length # ""
  /\ Exists(probe[1].s3_head[1].source_length)
  /\ probe[1].s3_head[1].source_length # probe[1].src_meta.content_length
  /\ probe[1].src_meta.etag = ""
  /\ probe[1].result = TRUE

\* the HEAD gave no last-modified, no length and no entity tag
EmptyMeta(info) ==
  info.last_modified = "" /\ info.content_length = "" /\ info.etag = ""

\* C8 as claimed: a listed file whose remote metadata is all empty is never
\* skipped in a pass.
C8_Claim ==
  \A n \in Names : EmptyMeta(files.info[n]) => task[n] # "skipped"

\* C8 amended: a listed file whose remote metadata is all empty is never
\* judged current before its download; when it ends skipped, its body was
\* downloaded in this pass and the stored checksum equals the checksum of
\* that body.
C8_EmptyMetaDownloads ==
  \A n \in Names :
    (EmptyMeta(files.info[n]) /\ task[n] = "skipped") =>
      /\ n \in fetched
      /\ n \in DOMAIN store
      /\ store[n].source_md5 = MD5(RemoteBody(files.info[n].url.href))

\* C8 witness: a file with empty remote metadata met a prior record with the
\* same empty metadata, was downloaded and then skipped.
C8_Witness ==
  \E n \in Names :
    /\ EmptyMeta(files.info[n])
    /\ task[n] = "skipped"
    /\ n \in fetched
    /\ store[n].source_last_modified = ""
    /\ store[n].source_etag = ""

\* delete_removed_objects was entered in this pass
ReconcileRan ==
  /\ ~indexFailed /\ do_delete /\ endpointUp
  /\ collected = Names
  /\ phase \in {"reconcile", "done"}

\* C9: Reconciler failure isolation, as claimed. When reconciliation is
\* over, every object left under the prefix that is absent from the listing
\* and carries the matching tags is one whose own tag fetch or delete failed:
\* a failure for one object stops no other object from being deleted.
C9_Claim ==
  (ReconcileRan /\ phase = "done") =>
    \A k \in DOMAIN store \ Names :
      CarriesTags(store[k], base_url) => k \in faulted

\* C10: Infrastructure error is fatal, as claimed. A pass in which the
\* destination endpoint is unreachable and that makes at least one
\* destination call ends with the infrastructure-error status.
C10_Claim ==
  ( /\ phase = "done" /\ ~indexFailed /\ ~endpointUp
    /\ (Names # {} \/ do_delete) )
  => exit = "infra"

\* C12: Disjoint keys within a pass, as claimed. No two transfer tasks of one
\* pass of sync_files write the same local path (the tasks of sync() are
\* keyed by the names of the listing mapping and are distinct by construction).
C12_Claim ==
  \A i, j \in DOMAIN ltask :
    (i # j /\ ltask[i] \in {"writing", "done"} /\ ltask[j] \in {"writing", "done"})
      => lremote[i].name # lremote[j].name

\* C13: No deletion of foreign entries in the local-directory sync, as
\* claimed. A file of dest_dir that this tool did not write is never removed
\* by sync_files, whether or not its name is in the remote listing.
C13_Claim ==
  lremoved \cap lforeign = {}

\* C14: Directory/parent exclusion, as claimed. After a successful listing
\* the names of the returned mapping are exactly the final path segments of
\* the file hyperlinks of the index page (no hyperlink that is empty, "../"
\* or ends with "/" contributes an entry), and each entry's name is the final
\* segment of its own URL.
C14_Claim ==
  (phase \in {"tasks", "reconcile", "done"} /\ ~indexFailed) =>
    /\ Names = IndexFileNames(page)
    /\ \A n \in Names :
         /\ ~SkippedHref(files.info[n].url.href)
         /\ n = LastSegment(files.info[n].url.href)

\* C15: Bounded retry. For every listed file the loop of
\* download_with_retries makes at most max_tries attempts; after failed
\* attempt i (counted from 0) it has slept min(60, 2^i) seconds; once an
\* attempt succeeded no further attempt is made; and a file whose download
\* raised (after max_tries failures in a row the last wait was the one of
\* attempt max_tries - 1) is never put in that pass.
C15_BoundedRetry ==
  \A n \in Names :
    LET Delay(i) == IF 2 ^ i < 60 THEN 2 ^ i ELSE 60 IN
      /\ tries[n] < max_tries
      /\ (task[n] = "downloading" /\ tries[n] > 0) =>
            slept[n] = Delay(tries[n] - 1)
      /\ n \in fetched => (task[n] # "downloading" /\ tries[n] = 0)
      /\ task[n] = "failed_dl" =>
            /\ n \notin fetched /\ n \notin puts
            /\ slept[n] \in {0, Delay(max_tries - 1)}

\* C15 witness: a download gave up after max_tries failed attempts, the last
\* wait being 16 seconds, and the file was not put.
C15_Witness ==
  \E n \in Names :
    /\ task[n] = "failed_dl"
    /\ slept[n] = 16
    /\ n \notin puts
    /\ n \in collected

\* C16: Phase ordering of a pass of sync(). Until the listing has returned
\* no per-file task exists and nothing was downloaded, put or deleted; the
\* Reconciler has started (or deleted something) only when every per-file
\* task has finished and its future has been collected; and from then on the
\* names the Reconciler spares are those of the one listing taken at the
\* start of the pass: no listed name is deleted.
C16_PhaseOrdering ==
  /\ phase = "start" =>
       /\ task = << >> /\ Names = {}
       /\ fetched = {} /\ puts = {} /\ collected = {} /\ deleted = {}
       /\ store = store0
  /\ (phase = "reconcile" \/ deleted # {} \/ queue # << >>) =>
       /\ \A n \in Names : task[n] \in Finished
       /\ collected = Names
  /\ (phase \in {"tasks", "reconcile"}) =>
       files = list_http_files(base_url, page, headResp, hdrs)
  /\ deleted \cap Names = {}

\* C16 witness: the Reconciler is running and has deleted an object after
\* the tasks of a non-empty listing, one of which put its object, finished.
C16_Witness ==
  /\ phase = "reconcile"
  /\ deleted # {}
  /\ puts # {}
  /\ \E n \in Names : task[n] \in {"failed_dl", "failed_s3"}

\* C17: Provenance on every write, as claimed. An object that a task of this pass put
\* is stored under the name of the task, carries the tags source=bls and
\* source_url_base = the base URL of the pass, has source_md5 equal to the
\* checksum of its stored payload and source_length equal to the byte count of
\* its stored payload, and its tags make it eligible for deletion under the
\* base URL of the pass and under no other base URL.
C17_Claim ==
  \A n \in Names :
    task[n] = "uploaded" =>
      /\ n \in DOMAIN store
      /\ store[n].tag_source = "bls"
      /\ store[n].tag_base = base_url
      /\ store[n].source_md5 = MD5(store[n].body)
      /\ store[n].source_length = Str(Size(store[n].body))
      /\ \A b \in Bases \cup {OtherBase} :
           DeleteEligible(get_s3_tags(store, n, FALSE), b) <=> b = base_url

\* C18: A failed transfer leaves the destination entry unchanged. For a
\* listed file whose download raised (retries exhausted or an error while
\* the body was read), no put was issued in this pass and the object under
\* its name, if any, is the one that was there when the pass began; and a put
\* is issued only for a file whose body was read to its end.
C18_FailedTransferUnchanged ==
  /\ \A n \in Names :
       task[n] = "failed_dl" =>
         /\ n \notin puts
         /\ (n \in DOMAIN store <=> n \in DOMAIN store0)
         /\ n \in DOMAIN store => store[n] = store0[n]
  /\ puts \subseteq fetched

\* C18 witness: at the end of a pass the download of one file had failed
\* over an existing object while the other file was put.
C18_Witness ==
  /\ phase = "done"
  /\ \E n \in Names :
       /\ task[n] = "failed_dl"
       /\ n \in DOMAIN store
       /\ \E m \in Names \ {n} : task[m] = "uploaded"

\* every object under the prefix when the pass began carried the tags of
\* this tool for the base URL of the pass
AllTaggedAtStart ==
  \A k \in DOMAIN store0 : CarriesTags(store0[k], base_url)

\* C19: Mirror postcondition. When a pass whose listing succeeded is over and
\* none of its per-file tasks failed, every listed name has an object at the
\* destination; if moreover deletion is enabled, the pass ended normally with
\* no failed tag fetch or delete, and every object under the prefix at the
\* start of the pass carried the tags for this base URL, then the names of
\* the objects under the prefix are exactly the names of the listing.
C19_Mirror ==
  (phase = "done" /\ ~indexFailed /\ FailedTasks = {}) =>
    /\ Names \subseteq DOMAIN store
    /\ (do_delete /\ exit = "success" /\ faulted = {} /\ AllTaggedAtStart) =>
         DOMAIN store = Names

\* C19 witness: a delete-enabled pass without failures has put a missing
\* listed file and deleted a tagged object that is not listed.
C19_Witness ==
  /\ phase = "done" /\ ~indexFailed /\ FailedTasks = {}
  /\ do_delete /\ exit = "success" /\ faulted = {} /\ AllTaggedAtStart
  /\ puts # {} /\ deleted # {}
  /\ puts \cap DOMAIN store0 = {}
  /\ DOMAIN store = Names

\* C11: Re-check before commit. A task starts to put only out of the state
\* in which its download has finished, and only when should_skip_upload,
\* evaluated on the destination as it is then and on the source metadata with
\* the downloaded checksum, says no; and when a second invocation of the sync
\* has committed the same content to the key between the first decision
\* and the re-check, the task that goes past the re-check has issued no put
\* and its outcome is skipped.
C11_RecheckBeforeCommit ==
  /\ [](\A n \in Names :
          (<< passNo, n >> \in raced /\ task[n] \in {"committing", "uploaded", "skipped"})
            => (task[n] = "skipped" /\ n \notin puts))
  /\ [][\A n \in Names :
          /\ (n \in puts' /\ n \notin puts) => task[n] = "committing"
          /\ (n \in DOMAIN task' /\ task'[n] = "committing" /\ task[n] # "committing") =>
               /\ task[n] = "downloaded"
               /\ n \in fetched
               /\ ~should_skip_upload(
                     head_s3_object(store, n),
                     SrcMetaBody(files.info[n], base_url,
                                 RemoteBody(files.info[n].url.href)))]_vars

\* C11 witness: the other invocation put the object of a file that had no
\* current object when the pass began, and the task was skipped after having
\* downloaded the file.
C11_Witness ==
  \E n \in Names :
    /\ << passNo, n >> \in raced
    /\ task[n] = "skipped"
    /\ n \in fetched
    /\ n \notin DOMAIN store0
    /\ files.info[n].last_modified = ""

====
